---- MODULE Spec2Model ----
(***************************************************************************)
(* ironic-aio API: the health check shared by the REST endpoint            *)
(* (GET /health) and the MCP tool (check_health), the Ironic client        *)
(* wrapper it depends on, and the client's node stubs.                     *)
(*                                                                         *)
(* A request is modelled in two steps, because check_health has exactly    *)
(* one await: the entry point builds its HealthService and check_health    *)
(* calls check_connectivity (the request is then in flight), and later     *)
(* check_connectivity returns and the record is built, serialized and      *)
(* answered.  The environment is the process environment read by           *)
(* Settings(), the outcome of the SDK's Connection constructor, the        *)
(* reachability of the Ironic API and the system wall clock.               *)
(***************************************************************************)
EXTENDS Integers, Sequences, FiniteSets, TLC

VARIABLES
    slots,       \* the requests in flight, by request slot
    log,         \* the answered requests, in order of completion
    clock,       \* the system wall clock read by datetime.now
    adjustments, \* how many times the wall clock has been set back so far
    reachable,   \* whether the Ironic API currently answers
    nodeCalls    \* the finished list_nodes / get_node calls

vars == <<slots, log, clock, adjustments, reachable, nodeCalls>>

\* ------------------------------------------------------------------ bounds

MaxInflight == 2
MaxCalls == 2
MaxClock == 2
MaxAdjust == 1
MaxNodeCalls == 3

Req == 1..MaxInflight

\* ------------------------------------------------------------- primitives

\* Python's None.
None == "None"

\* How a call ends: it returns a value or raises an exception class.
Return(v) == [kind |-> "return", value |-> v]
Raise(e) == [kind |-> "raise", exc |-> e]

\* The base class of each exception class the model uses.
Bases ==
    [c \in {"IronicClientError", "NotImplementedError", "RuntimeError",
            "ValueError", "Exception", "BaseException"} |->
        CASE c = "IronicClientError" -> "RuntimeError"
          [] c = "NotImplementedError" -> "RuntimeError"
          [] c = "RuntimeError" -> "Exception"
          [] c = "ValueError" -> "Exception"
          [] c = "Exception" -> "BaseException"
          [] OTHER -> "BaseException"]

\* isinstance(exc, cls), as an except clause decides it.
RECURSIVE IsInstance(_, _)
IsInstance(exc, cls) ==
    IF exc = cls THEN TRUE
    ELSE IF exc = "BaseException" THEN FALSE
    ELSE IsInstance(Bases[exc], cls)

\* --------------------------------------------------------------- settings

\* The process environments a request may be served under.
EmptyEnv == [k \in {} |-> ""]
OverrideEnv ==
    ("IRONIC_AIO_APP_VERSION" :> "0.2.0")
        @@ ("IRONIC_AIO_IRONIC_API_VERSION" :> "1.90")
Envs == {EmptyEnv, OverrideEnv}

\* A field of Settings: the prefixed environment variable, else the default.
Field(env, name, default) ==
    IF name \in DOMAIN env THEN env[name] ELSE default

Settings(env) ==
    [app_name |-> Field(env, "IRONIC_AIO_APP_NAME", "ironic-aio-api"),
     app_version |-> Field(env, "IRONIC_AIO_APP_VERSION", "0.1.0"),
     debug |-> Field(env, "IRONIC_AIO_DEBUG", FALSE),
     ironic_api_url |->
        Field(env, "IRONIC_AIO_IRONIC_API_URL", "http://localhost:6385"),
     ironic_api_version |->
        Field(env, "IRONIC_AIO_IRONIC_API_VERSION", "1.82")]

get_settings(env) == Settings(env)

\* ----------------------------------------------------------------- client

IronicClient(settings) == [settings |-> settings]

get_ironic_client(settings) == IronicClient(settings)

\* What os_connection.Connection(...) does: it builds the connection object
\* or raises.  The constructor is handed auth_type "none" and the endpoint
\* override and sends nothing to the Ironic API (the lightweight API call is
\* still a TODO of check_connectivity), so its outcome does not depend on
\* the API being reachable.
SdkOutcomes == {Return("Connection"), Raise("ValueError"), Raise("RuntimeError")}

\* get_connection: any Exception of the constructor is wrapped.
get_connection(sdk) ==
    IF sdk.kind = "raise" /\ IsInstance(sdk.exc, "Exception")
    THEN Raise("IronicClientError")
    ELSE sdk

\* What a replaced get_connection does: the tests patch it on the client to
\* succeed or to raise IronicClientError; any other exception is what the
\* second handler of check_connectivity is there for.
PatchedConnections ==
    {Return("Connection"), Raise("IronicClientError"), Raise("RuntimeError")}

\* Every way the awaited get_connection can end.
ConnectionAttempts ==
    {get_connection(sdk) : sdk \in SdkOutcomes} \cup PatchedConnections

check_connectivity_uncaught(attempt) ==
    IF attempt.kind = "return" THEN Return(TRUE)
    ELSE IF IsInstance(attempt.exc, "IronicClientError") THEN Return(FALSE)
    ELSE attempt

\* check_connectivity, given how its get_connection call ended.
check_connectivity(attempt) ==
    IF attempt.kind = "return" THEN Return(TRUE)
    ELSE IF IsInstance(attempt.exc, "IronicClientError") THEN Return(FALSE)
    ELSE IF IsInstance(attempt.exc, "Exception") THEN Return(FALSE)
    ELSE attempt

list_nodes == Raise("NotImplementedError")

get_node_lookup(node_id) == Return(node_id)

get_node(node_id) == Raise("NotImplementedError")

NodeIds == {"node-1", "node-2"}

\* ---------------------------------------------------------------- service

HealthService(settings, ironic_client) ==
    [settings |-> settings, ironic_client |-> ironic_client]

get_health_service(env) ==
    LET settings == get_settings(env)
    IN  HealthService(settings, get_ironic_client(settings))

NaiveNow == [t |-> clock, tzinfo |-> None]

\* datetime.now(timezone.utc)
UtcNow == [t |-> clock, tzinfo |-> "UTC"]

StatusUnhealthy(ironic_connected) ==
    IF ironic_connected THEN "healthy" ELSE "unhealthy"

StatusOf(ironic_connected) ==
    IF ironic_connected THEN "healthy" ELSE "degraded"

ApiVersionAlways(settings, ironic_connected) == settings.ironic_api_version

ApiVersionOf(settings, ironic_connected) ==
    IF ironic_connected THEN settings.ironic_api_version ELSE None

VersionDefault(settings) == "0.1.0"

VersionOf(settings) == settings.app_version

HealthStatus(status, version, timestamp, ironic_connected, ironic_api_version) ==
    [status |-> status,
     version |-> version,
     timestamp |-> timestamp,
     ironic_connected |-> ironic_connected,
     ironic_api_version |-> ironic_api_version]

\* check_health, resumed with the result of its check_connectivity call.
check_health(service, connectivity) ==
    IF connectivity.kind = "raise" THEN connectivity
    ELSE LET ironic_connected == connectivity.value
         IN  Return(HealthStatus(
                    StatusOf(ironic_connected),
                    VersionOf(service.settings),
                    UtcNow,
                    ironic_connected,
                    ApiVersionOf(service.settings, ironic_connected)))

\* ------------------------------------------------------------ entry points

\* A datetime in a JSON body.
IsoFormat(timestamp) ==
    [t |-> timestamp.t,
     offset |-> IF timestamp.tzinfo = "UTC" THEN "Z" ELSE ""]

\* The JSON body the response_model gives the record.
JsonBody(record) ==
    [status |-> record.status,
     version |-> record.version,
     timestamp |-> IsoFormat(record.timestamp),
     ironic_connected |-> record.ironic_connected,
     ironic_api_version |-> record.ironic_api_version]

\* GET /health: the record as the body of a 200, an unhandled exception as
\* the framework's 500.
get_health(result) ==
    IF result.kind = "return"
    THEN [status_code |-> 200, body |-> JsonBody(result.value)]
    ELSE [status_code |-> 500, body |-> [detail |-> "Internal Server Error"]]

model_dump_exclude(record) ==
    [status |-> record.status,
     version |-> record.version,
     timestamp |-> record.timestamp,
     ironic_connected |-> record.ironic_connected,
     ironic_api_version |-> None]

\* HealthStatus.model_dump()
model_dump(record) ==
    [status |-> record.status,
     version |-> record.version,
     timestamp |-> record.timestamp,
     ironic_connected |-> record.ironic_connected,
     ironic_api_version |-> record.ironic_api_version]

\* The MCP tool check_health.
mcp_check_health(result) ==
    IF result.kind = "return" THEN Return(model_dump(result.value)) ELSE result

Respond(transport, result) ==
    IF transport = "http" THEN get_health(result) ELSE mcp_check_health(result)

\* ------------------------------------------------------------------ state

Idle == [pc |-> "idle"]

InFlight == {r \in Req : slots[r].pc = "awaiting"}

Init ==
    /\ slots = [r \in Req |-> Idle]
    /\ log = <<>>
    /\ clock = 0
    /\ adjustments = 0
    /\ reachable \in BOOLEAN
    /\ nodeCalls = <<>>

\* The entry point obtains its service and check_health awaits
\* check_connectivity.
Begin(r, transport, env) ==
    /\ slots[r].pc = "idle"
    /\ Len(log) + Cardinality(InFlight) < MaxCalls
    /\ slots' = [slots EXCEPT ![r] =
            [pc |-> "awaiting",
             transport |-> transport,
             snapshot |-> get_settings(env),
             service |-> get_health_service(env),
             health_calls |-> 1,
             connectivity_calls |-> 1,
             started |-> Len(log)]]
    /\ UNCHANGED <<log, clock, adjustments, reachable, nodeCalls>>

HttpRequest(r, env) == Begin(r, "http", env)

McpToolCall(r, env) == Begin(r, "mcp", env)

ServiceShared(r) ==
    slots[CHOOSE q \in Req : slots[q].pc = "awaiting"].service

\* The service the request's check_health runs on (its self).
ServiceOf(r) == slots[r].service

\* check_connectivity returns to the request's check_health, which builds the
\* record; the entry point serializes it and answers.
ConnectivityReturns(r, attempt) ==
    /\ slots[r].pc = "awaiting"
    /\ LET connectivity == check_connectivity(attempt)
           result == check_health(ServiceOf(r), connectivity)
       IN  log' = Append(log,
                [transport |-> slots[r].transport,
                 snapshot |-> slots[r].snapshot,
                 service |-> ServiceOf(r),
                 attempt |-> attempt,
                 reachable |-> reachable,
                 connectivity |-> connectivity,
                 health_calls |-> slots[r].health_calls,
                 connectivity_calls |-> slots[r].connectivity_calls,
                 result |-> result,
                 response |-> Respond(slots[r].transport, result),
                 started |-> slots[r].started,
                 epoch |-> adjustments])
    /\ slots' = [slots EXCEPT ![r] = Idle]
    /\ UNCHANGED <<clock, adjustments, reachable, nodeCalls>>

\* Time passes.
Tick ==
    /\ clock < MaxClock
    /\ clock' = clock + 1
    /\ UNCHANGED <<slots, log, adjustments, reachable, nodeCalls>>

\* The wall clock is set back (an NTP step, an operator).
ClockSetBack(t) ==
    /\ adjustments < MaxAdjust
    /\ t < clock
    /\ clock' = t
    /\ adjustments' = adjustments + 1
    /\ UNCHANGED <<slots, log, reachable, nodeCalls>>

\* The Ironic API goes down or comes back.
DownstreamChange ==
    /\ reachable' = ~reachable
    /\ UNCHANGED <<slots, log, clock, adjustments, nodeCalls>>

ListNodes ==
    /\ Len(nodeCalls) < MaxNodeCalls
    /\ nodeCalls' = Append(nodeCalls,
            [op |-> "list_nodes", node_id |-> None, reachable |-> reachable,
             outcome |-> list_nodes])
    /\ UNCHANGED <<slots, log, clock, adjustments, reachable>>

GetNode(node_id) ==
    /\ Len(nodeCalls) < MaxNodeCalls
    /\ nodeCalls' = Append(nodeCalls,
            [op |-> "get_node", node_id |-> node_id, reachable |-> reachable,
             outcome |-> get_node(node_id)])
    /\ UNCHANGED <<slots, log, clock, adjustments, reachable>>

\* The health path: both entry points, with requests overlapping at the await,
\* while the Ironic API goes up and down.
Next ==
    \/ \E r \in Req, env \in Envs : HttpRequest(r, env)
    \/ \E r \in Req, env \in Envs : McpToolCall(r, env)
    \/ \E r \in Req, attempt \in ConnectionAttempts : ConnectivityReturns(r, attempt)
    \/ DownstreamChange

Spec == Init /\ [][Next]_vars

\* The health path of a process with the default environment, under a wall
\* clock that advances and may be set back.
NextClock ==
    \/ \E r \in Req : HttpRequest(r, EmptyEnv)
    \/ \E r \in Req, attempt \in ConnectionAttempts : ConnectivityReturns(r, attempt)
    \/ Tick
    \/ \E t \in 0..MaxClock : ClockSetBack(t)

SpecClock == Init /\ [][NextClock]_vars

\* The node stubs, called while the Ironic API goes up and down.
NextNodes ==
    \/ ListNodes
    \/ \E node_id \in NodeIds : GetNode(node_id)
    \/ DownstreamChange

SpecNodes == Init /\ [][NextNodes]_vars

\* ----------------------------------------------------------- properties

Answered == 1..Len(log)

\* The record check_health returned for the i-th answered request.
Record(i) == log[i].result.value

Returned(i) == log[i].result.kind = "return"

\* What check_connectivity returned for the i-th answered request.
Connected(i) ==
    log[i].connectivity.kind = "return" /\ log[i].connectivity.value

\* The key/value structure the entry point answered with.
Payload(i) ==
    IF log[i].transport = "http" THEN log[i].response.body
    ELSE log[i].response.value

\* Request j began after request i was answered.
Sequential(i, j) == i < j /\ log[j].started >= i

\* Requests i and j were in flight at the same time.
Overlapping(i, j) == i < j /\ log[j].started < i

\* C1: every record check_health returns carries the boolean check_connectivity
\* returned as ironic_connected, has status "healthy" exactly when that
\* boolean is true and "degraded" otherwise, and never has status "unhealthy".
C1_StatusIffConnected ==
    \A i \in Answered :
        log[i].connectivity.kind = "return" =>
            /\ Returned(i)
            /\ Record(i).ironic_connected = log[i].connectivity.value
            /\ (Record(i).status = "healthy") <=> Record(i).ironic_connected
            /\ (Record(i).status = "degraded") <=> ~Record(i).ironic_connected
            /\ Record(i).status # "unhealthy"

C1_Witness ==
    \E i, j \in Answered :
        /\ Returned(i) /\ Record(i).status = "healthy" /\ Connected(i)
        /\ Returned(j) /\ Record(j).status = "degraded" /\ ~Connected(j)

\* C2: in every record check_health returns, ironic_api_version is present
\* exactly when ironic_connected is true; when present it is the microversion
\* of the settings snapshot the service was built with, otherwise it is None.
C2_ApiVersionIffConnected ==
    \A i \in Answered :
        Returned(i) =>
            /\ (Record(i).ironic_api_version # None) <=> Record(i).ironic_connected
            /\ Record(i).ironic_connected =>
                    Record(i).ironic_api_version = log[i].snapshot.ironic_api_version
            /\ ~Record(i).ironic_connected => Record(i).ironic_api_version = None

C2_Witness ==
    \E i, j \in Answered :
        /\ Returned(i) /\ Record(i).ironic_connected
        /\ Record(i).ironic_api_version = "1.90"
        /\ Returned(j) /\ ~Record(j).ironic_connected
        /\ log[j].snapshot.ironic_api_version = "1.90"

\* C3: check_health never raises.  A failing SDK constructor leaves
\* get_connection as IronicClientError, and however get_connection raises,
\* check_connectivity returns false and check_health returns a record with
\* ironic_connected false.
C3_HealthNeverRaises ==
    /\ \A sdk \in SdkOutcomes :
            sdk.kind = "raise" =>
                /\ get_connection(sdk).kind = "raise"
                /\ get_connection(sdk).exc = "IronicClientError"
    /\ \A i \in Answered :
            /\ Returned(i)
            /\ log[i].attempt.kind = "raise" =>
                    /\ log[i].connectivity.kind = "return"
                    /\ ~log[i].connectivity.value
                    /\ ~Record(i).ironic_connected

C3_Witness ==
    \E i, j \in Answered :
        /\ log[i].attempt.kind = "raise"
        /\ log[i].attempt.exc = "IronicClientError"
        /\ Returned(i) /\ ~Record(i).ironic_connected
        /\ log[j].attempt.kind = "raise"
        /\ log[j].attempt.exc = "RuntimeError"
        /\ Returned(j) /\ ~Record(j).ironic_connected

\* C4: whenever the Ironic API is unreachable while check_connectivity runs,
\* the record has ironic_connected false and status "degraded".
C4_UnreachableIsDegraded ==
    \A i \in Answered :
        ~log[i].reachable =>
            /\ Returned(i)
            /\ ~Record(i).ironic_connected
            /\ Record(i).status = "degraded"

\* C5: GET /health answers 200 in every execution, and when the Ironic API is
\* unreachable the body has status "degraded", ironic_connected false and
\* ironic_api_version null.
C5_UnreachableIs200Degraded ==
    \A i \in Answered :
        log[i].transport = "http" =>
            /\ log[i].response.status_code = 200
            /\ ~log[i].reachable =>
                    /\ Payload(i).status = "degraded"
                    /\ ~Payload(i).ironic_connected
                    /\ Payload(i).ironic_api_version = None

\* C6: an answer of GET /health and an answer of the MCP tool, for the same
\* settings snapshot and the same connectivity outcome, agree on status,
\* version, ironic_connected and ironic_api_version, each entry point having
\* called check_health once.
C6_TransportsAgree ==
    \A i, j \in Answered :
        (/\ log[i].transport = "http"
         /\ log[j].transport = "mcp"
         /\ log[i].snapshot = log[j].snapshot
         /\ Connected(i) = Connected(j)) =>
            /\ log[i].response.status_code = 200
            /\ log[j].response.kind = "return"
            /\ Payload(i).status = Payload(j).status
            /\ Payload(i).version = Payload(j).version
            /\ Payload(i).ironic_connected = Payload(j).ironic_connected
            /\ Payload(i).ironic_api_version = Payload(j).ironic_api_version
            /\ log[i].health_calls = 1
            /\ log[j].health_calls = 1

C6_Witness ==
    \E i, j \in Answered :
        /\ log[i].transport = "http" /\ log[j].transport = "mcp"
        /\ log[i].snapshot = log[j].snapshot
        /\ Connected(i) /\ Connected(j)
        /\ Payload(i).ironic_api_version = "1.90"
        /\ Payload(j).ironic_api_version = "1.90"
        /\ Payload(i).timestamp # Payload(j).timestamp

\* C7: every call of list_nodes and of get_node, for any id and whether or not
\* the Ironic API is reachable, raises NotImplementedError: it returns
\* nothing, and what it raises is not an IronicClientError.
C7_NodeStubsNotImplemented ==
    \A n \in 1..Len(nodeCalls) :
        /\ nodeCalls[n].outcome.kind = "raise"
        /\ nodeCalls[n].outcome.exc = "NotImplementedError"
        /\ ~IsInstance(nodeCalls[n].outcome.exc, "IronicClientError")

C7_Witness ==
    \E m, n, k \in 1..Len(nodeCalls) :
        /\ nodeCalls[m].op = "list_nodes"
        /\ nodeCalls[n].op = "get_node" /\ nodeCalls[n].node_id = "node-1"
        /\ nodeCalls[k].op = "get_node" /\ nodeCalls[k].node_id = "node-2"
        /\ nodeCalls[m].reachable # nodeCalls[n].reachable

\* C8, as stated: every timestamp is timezone-aware UTC, and of two sequential
\* check_health calls the later never carries the earlier timestamp.
C8_TimestampsMonotonic ==
    /\ \A i \in Answered : Returned(i) => Record(i).timestamp.tzinfo = "UTC"
    /\ \A i, j \in Answered :
            (Sequential(i, j) /\ Returned(i) /\ Returned(j)) =>
                Record(i).timestamp.t <= Record(j).timestamp.t

\* C8, amended: every timestamp is timezone-aware UTC, and of two sequential
\* check_health calls the later never carries the earlier timestamp unless the
\* wall clock was set back between the two.
C8_TimestampsFollowClock ==
    /\ \A i \in Answered : Returned(i) /\ Record(i).timestamp.tzinfo = "UTC"
    /\ \A i, j \in Answered :
            (Sequential(i, j) /\ log[i].epoch = log[j].epoch) =>
                Record(i).timestamp.t <= Record(j).timestamp.t

C8_Witness ==
    \E i, j \in Answered :
        /\ Sequential(i, j)
        /\ log[i].epoch = log[j].epoch
        /\ log[j].epoch > 0
        /\ Record(i).timestamp.t < Record(j).timestamp.t

\* C9: the version of every record check_health returns is the app_version of
\* the settings snapshot its service holds, whatever check_connectivity
\* returned.
C9_VersionIsAppVersion ==
    \A i \in Answered :
        Returned(i) => Record(i).version = log[i].snapshot.app_version

C9_Witness ==
    \E i, j \in Answered :
        /\ Returned(i) /\ Connected(i) /\ Record(i).version = "0.2.0"
        /\ Returned(j) /\ ~Connected(j) /\ Record(j).version = "0.2.0"

\* The service and client a request was given, as constructed.
AsBuilt(snapshot) == HealthService(snapshot, IronicClient(snapshot))

C10_OwnInputsOnly ==
    /\ \A r \in InFlight : slots[r].service = AsBuilt(slots[r].snapshot)
    /\ \A i \in Answered :
            /\ log[i].service = AsBuilt(log[i].snapshot)
            /\ log[i].connectivity_calls = 1
            /\ Returned(i)
            /\ Record(i).ironic_connected = Connected(i)
    /\ \A i, j \in Answered :
            (log[i].snapshot = log[j].snapshot /\ Connected(i) = Connected(j)) =>
                /\ Record(i).status = Record(j).status
                /\ Record(i).version = Record(j).version
                /\ Record(i).ironic_connected = Record(j).ironic_connected
                /\ Record(i).ironic_api_version = Record(j).ironic_api_version

C10_OthersUntouched ==
    /\ \A r \in Req :
            (slots[r].pc = "awaiting" /\ slots'[r].pc = "awaiting") =>
                slots'[r] = slots[r]
    /\ Len(log') >= Len(log)
    /\ \A i \in Answered : log'[i] = log[i]
    /\ Len(log') > Len(log) =>
            /\ log'[Len(log')].result.kind = "return"
            /\ log'[Len(log')].result.value.timestamp = [t |-> clock, tzinfo |-> "UTC"]

\* C10: under any interleaving of in-flight check_health invocations, each
\* returns a record whose status, version, ironic_connected and
\* ironic_api_version are fixed by its own connectivity outcome and its own
\* settings snapshot and whose timestamp is the clock reading at its own
\* completion, having called check_connectivity once; no step changes the
\* service, client or snapshot of a request, the state of another request in
\* flight, or an answer already given.
C10_RequestsIndependent ==
    /\ []C10_OwnInputsOnly
    /\ [][C10_OthersUntouched]_vars

C10_Witness ==
    \E i, j \in Answered :
        /\ Overlapping(i, j)
        /\ log[i].snapshot # log[j].snapshot
        /\ Connected(i) # Connected(j)
        /\ Returned(i) /\ Returned(j)
        /\ Record(i).version # Record(j).version

====
